---------------------------- MODULE Spec2Model ----------------------------
(***************************************************************************)
(* BluDood/AccountsAPI: the expiring cache (src/src/lib/cache.ts) and the  *)
(* cache-aware user resolution of the client (src/src/lib/utils.ts:        *)
(* getUser, getUsers, verifyUser).                                         *)
(*                                                                         *)
(* Time is the value Date.now() returns.  Every call of Date.now() is a    *)
(* separate reading of the clock, so inside one synchronous handler a      *)
(* later reading may be one tick after an earlier one.  A handler that     *)
(* makes several readings takes a parameter p: the reading (counted from   *)
(* 1) at which the clock is first seen one tick later, 0 for none.  The    *)
(* handlers are far shorter than a tick, so one tick per handler is all    *)
(* that is modelled; Tick moves the clock between handlers.                *)
(***************************************************************************)
EXTENDS Integers, Sequences, FiniteSets

\* -------------------------------------------------- bounds and constants
MaxTime == 1          \* the clock runs over 0..MaxTime
MaxLen == 2           \* longest list of ids within the limit that is tried
HungLen == 1          \* longest list of ids tried beside a request that hangs
Timeout == 1          \* Cache.#timeout, the timeout given to the constructor
MaxBatch == 100       \* the limit of getUsers

Keys == {"a", "b"}
Tasks == {"t1", "t2"}

\* A user object as the remote serves it, told apart by its own id.
Values == [id : Keys]
\* JavaScript's null
Null == [id |-> "null"]
\* What a rejected request carries (the response interceptor, utils.ts:82-91)
Errors == {"AccountsAPIError", "NetworkError"}
TooMany == "Cannot get more than 100 users at once"

RECURSIVE SeqsUpTo(_, _)
SeqsUpTo(S, n) ==
  IF n = 0 THEN {<<>>}
  ELSE LET shorter == SeqsUpTo(S, n - 1)
       IN  shorter \cup {Append(s, x) : s \in {q \in shorter : Len(q) = n - 1}, x \in S}

\* The lists of ids a caller passes: every list up to MaxLen, and a list one
\* longer than the limit.
IdLists == SeqsUpTo(Keys, MaxLen) \cup {[i \in 1..(MaxBatch + 1) |-> "a"]}
\* The lists of users /users/multiple may answer with: any users in any
\* order, repeated or missing, up to as many as there are keys.
RespLists == SeqsUpTo(Values, Cardinality(Keys))
\* The timeouts a direct caller of Cache.set passes (the default among them).
Ttls == 0..Timeout

VARIABLES
  now,      \* Date.now()
  cache,    \* Cache.#cache: a Map, here a function whose domain is the keys present
  task,     \* per logical task: the call it is suspended in, if any
  ev,       \* the handler that has just run (its arguments and outcome), until
            \* the event loop moves on
  lastSet   \* history: per key, the last direct Cache.set since the key was
            \* deleted or cleared

vars == <<now, cache, task, ev, lastSet>>

\* ------------------------------------------------------------ the cache
EmptyMap == [k \in {} |-> 0]

MapSet(c, k, e) == [x \in (DOMAIN c) \cup {k} |-> IF x = k THEN e ELSE c[x]]
MapDelete(c, k) == [x \in (DOMAIN c) \ {k} |-> c[x]]

\* Cache.get that still serves an entry at its expiry instant (>= for >).
CacheGetInclusive(c, k, clk) ==
  IF k \in DOMAIN c
  THEN IF c[k].expires >= clk
       THEN [value |-> c[k].value, cache |-> c]
       ELSE [value |-> Null, cache |-> MapDelete(c, k)]
  ELSE [value |-> Null, cache |-> c]

\* Cache.get that serves whatever entry the map holds, expired or not.
CacheGetNoExpiry(c, k, clk) ==
  IF k \in DOMAIN c THEN [value |-> c[k].value, cache |-> c]
  ELSE [value |-> Null, cache |-> c]

\* Cache.get at clock reading clk: the value returned and the map afterwards.
CacheGet(c, k, clk) ==
  IF k \in DOMAIN c
  THEN IF c[k].expires > clk
       THEN [value |-> c[k].value, cache |-> c]
       ELSE [value |-> Null, cache |-> MapDelete(c, k)]
  ELSE [value |-> Null, cache |-> c]

\* Cache.has that does not look at the expiry.
CacheHasNoExpiry(c, k, clk) == [found |-> k \in DOMAIN c, cache |-> c]

\* Cache.has that leaves the entry it finds expired in the map.
CacheHasNoDelete(c, k, clk) ==
  [found |-> k \in DOMAIN c /\ c[k].expires > clk, cache |-> c]

\* Cache.has at clock reading clk: the answer and the map afterwards.
CacheHas(c, k, clk) ==
  IF k \in DOMAIN c
  THEN IF c[k].expires > clk
       THEN [found |-> TRUE, cache |-> c]
       ELSE [found |-> FALSE, cache |-> MapDelete(c, k)]
  ELSE [found |-> FALSE, cache |-> c]

\* Cache.set that keeps an entry that has not expired (the first write wins).
CacheSetIfAbsent(c, k, v, ttl, clk) ==
  IF k \in DOMAIN c /\ c[k].expires > clk THEN c
  ELSE MapSet(c, k, [value |-> v, expires |-> clk + ttl])

\* Cache.set that lets the later of the old and the new expiry stand.
CacheSetKeepLonger(c, k, v, ttl, clk) ==
  MapSet(c, k, [value |-> v,
                expires |-> IF k \in DOMAIN c /\ c[k].expires > clk + ttl
                            THEN c[k].expires ELSE clk + ttl])

\* Cache.set at clock reading clk.
CacheSet(c, k, v, ttl, clk) == MapSet(c, k, [value |-> v, expires |-> clk + ttl])

\* Cache.delete that drops every entry.
CacheDeleteAll(c, k) == EmptyMap

CacheDelete(c, k) == MapDelete(c, k)

CacheClear(c) == EmptyMap

\* ------------------------------------------------------- tasks, outcomes
\* ev.ids: the ids of the call, and on the answer to getUsers the ids its
\* request asked for; ev.value / ev.users: what the call returned; ev.hits: the cached users
\* getUsers had collected; ev.resp: the answer its request got; ev.nreq: the
\* requests the call has sent; ev.old: the entry a direct get, has, set
\* or delete, or the set of getUser's answer, found under its key, if any.
\* What a suspended call holds across its await: the key (getUser), the hits
\* collected (getUsers: users), the request in flight and how many it has sent.
IdleTask == [pc |-> "idle", key |-> "none", users |-> <<>>, req |-> <<>>, nreq |-> 0]

NoResp == [kind |-> "none", value |-> Null, users |-> <<>>, err |-> "none"]

NoEv ==
  [t |-> "none", op |-> "none", key |-> "none", ids |-> <<>>, force |-> FALSE,
   status |-> "none", value |-> Null, users |-> <<>>, hits |-> <<>>,
   err |-> "none", resp |-> NoResp, nreq |-> 0, old |-> <<>>]

NoSet == [value |-> Null, at |-> -1, ttl |-> -1]

\* The clock at reading j of a handler that starts at base.
ClockAt(j, p, base) == base + (IF p > 0 /\ j >= p THEN 1 ELSE 0)

\* The tick positions a handler with n clock readings may see: none (0), or
\* between two of its readings (a tick before the first is a Tick before the
\* handler).
TickPos(n) == IF now < MaxTime THEN {0} \cup (2..n) ELSE {0}

Init ==
  /\ now = 0
  /\ cache = EmptyMap
  /\ task = [t \in Tasks |-> IdleTask]
  /\ ev = NoEv
  /\ lastSet = [k \in Keys |-> NoSet]

\* Time passes between handlers.
Tick ==
  /\ ev = NoEv
  /\ now < MaxTime
  /\ now' = now + 1
  /\ UNCHANGED <<cache, task, ev, lastSet>>

\* The handler is over: the event loop moves on to the next task.
Deliver ==
  /\ ev # NoEv
  /\ ev' = NoEv
  /\ UNCHANGED <<now, cache, task, lastSet>>

\* ------------------------------------------- the cache, called directly
\* Map.get(key) as a list: the entry under k, if there is one.
Found(c, k) == IF k \in DOMAIN c THEN <<c[k]>> ELSE <<>>

Get(k) ==
  /\ ev = NoEv
  /\ LET r == CacheGet(cache, k, now)
     IN  /\ cache' = r.cache
         /\ ev' = [NoEv EXCEPT !.op = "get", !.key = k, !.status = "ok",
                               !.value = r.value, !.old = Found(cache, k)]
  /\ UNCHANGED <<now, task, lastSet>>

Has(k) ==
  /\ ev = NoEv
  /\ LET r == CacheHas(cache, k, now)
     IN  /\ cache' = r.cache
         /\ ev' = [NoEv EXCEPT !.op = "has", !.key = k,
                               !.status = IF r.found THEN "true" ELSE "false",
                               !.old = Found(cache, k)]
  /\ UNCHANGED <<now, task, lastSet>>

Set(k, v, ttl) ==
  /\ ev = NoEv
  /\ cache' = CacheSet(cache, k, v, ttl, now)
  /\ lastSet' = [lastSet EXCEPT ![k] = [value |-> v, at |-> now, ttl |-> ttl]]
  /\ ev' = [NoEv EXCEPT !.op = "set", !.key = k, !.status = "ok",
                        !.old = Found(cache, k)]
  /\ UNCHANGED <<now, task>>

Delete(k) ==
  /\ ev = NoEv
  /\ cache' = CacheDelete(cache, k)
  /\ lastSet' = [lastSet EXCEPT ![k] = NoSet]
  /\ ev' = [NoEv EXCEPT !.op = "delete", !.key = k, !.status = "ok",
                        !.old = Found(cache, k)]
  /\ UNCHANGED <<now, task>>

Clear ==
  /\ ev = NoEv
  /\ cache' = CacheClear(cache)
  /\ lastSet' = [k \in Keys |-> NoSet]
  /\ ev' = [NoEv EXCEPT !.op = "clear", !.status = "ok"]
  /\ UNCHANGED <<now, task>>

NextCache ==
  \/ Tick
  \/ Deliver
  \/ \E k \in Keys : Get(k)
  \/ \E k \in Keys : Has(k)
  \/ \E k \in Keys, v \in Values, ttl \in Ttls : Set(k, v, ttl)
  \/ \E k \in Keys : Delete(k)
  \/ Clear

SpecCache == Init /\ [][NextCache]_vars

\* ------------------------------------------------------------- getUser
\* The cache consulted whatever force is.
UseCacheIgnoreForce(found, force) == found

\* utils.ts:119 and :138: `this.#cache.has(id) && !force`, has evaluated first.
UseCache(found, force) == found /\ ~force

\* Single flight: a call that finds a request for k in flight sends none.
AwaitOneCoalesced(t, k) ==
  IF \E u \in Tasks \ {t} : task[u].pc = "getUser" /\ task[u].key = k
  THEN [IdleTask EXCEPT !.pc = "getUser", !.key = k]
  ELSE [IdleTask EXCEPT !.pc = "getUser", !.key = k, !.req = <<k>>, !.nreq = 1]

\* utils.ts:120: what getUser(k) holds while it awaits GET /users/{k}.
AwaitOne(t, k) ==
  [IdleTask EXCEPT !.pc = "getUser", !.key = k, !.req = <<k>>, !.nreq = 1]

\* The answer stored under its own id, as getUsers does.
StoreKeyOwnId(k, v) == v.id

\* utils.ts:121: the key getUser(k) stores the answer v under.
StoreKey(k, v) == k

\* The event of task t's call op with these arguments.
Call(t, op, k, ids, force) ==
  [NoEv EXCEPT !.t = t, !.op = op, !.key = k, !.ids = ids, !.force = force]

\* getUser that waits while another task's request for the key is in flight.
GetUserReserved(t, k, force, p) ==
  /\ ev = NoEv
  /\ task[t].pc = "idle"
  /\ \A u \in Tasks \ {t} : ~(task[u].pc = "getUser" /\ task[u].key = k)
  /\ LET h == CacheHas(cache, k, ClockAt(1, p, now))
     IN  IF UseCache(h.found, force)
         THEN LET g == CacheGet(h.cache, k, ClockAt(2, p, now))
              IN  /\ cache' = g.cache
                  /\ now' = ClockAt(2, p, now)
                  /\ ev' = [Call(t, "getUser", k, <<>>, force) EXCEPT
                              !.status = "ok", !.value = g.value]
                  /\ UNCHANGED task
         ELSE /\ cache' = h.cache
              /\ now' = ClockAt(1, p, now)
              /\ task' = [task EXCEPT ![t] = AwaitOne(t, k)]
              /\ ev' = [Call(t, "getUser", k, <<>>, force) EXCEPT
                          !.status = "await", !.nreq = AwaitOne(t, k).nreq]
  /\ UNCHANGED lastSet

\* utils.ts:118-119, up to the return or the await.  Readings: has (1), get (2).
GetUser(t, k, force, p) ==
  /\ ev = NoEv
  /\ task[t].pc = "idle"
  /\ LET h == CacheHas(cache, k, ClockAt(1, p, now))
     IN  IF UseCache(h.found, force)
         THEN LET g == CacheGet(h.cache, k, ClockAt(2, p, now))
              IN  /\ cache' = g.cache
                  /\ now' = ClockAt(2, p, now)
                  /\ ev' = [Call(t, "getUser", k, <<>>, force) EXCEPT
                              !.status = "ok", !.value = g.value]
                  /\ UNCHANGED task
         ELSE /\ cache' = h.cache
              /\ now' = ClockAt(1, p, now)
              /\ task' = [task EXCEPT ![t] = AwaitOne(t, k)]
              /\ ev' = [Call(t, "getUser", k, <<>>, force) EXCEPT
                          !.status = "await", !.nreq = AwaitOne(t, k).nreq]
  /\ UNCHANGED lastSet

\* utils.ts:120-122: GET /users/{id} answers v.
RespondOne(t, v) ==
  /\ ev = NoEv
  /\ task[t].pc = "getUser"
  /\ cache' = CacheSet(cache, StoreKey(task[t].key, v), v, Timeout, now)
  /\ ev' = [Call(t, "getUser", task[t].key, <<>>, FALSE) EXCEPT
              !.status = "ok", !.value = v,
              !.resp = [NoResp EXCEPT !.kind = "one", !.value = v],
              !.nreq = task[t].nreq,
              !.old = Found(cache, StoreKey(task[t].key, v))]
  /\ task' = [task EXCEPT ![t] = IdleTask]
  /\ UNCHANGED <<now, lastSet>>

\* utils.ts:120: the request rejects with e and the await throws.
FailOne(t, e) ==
  /\ ev = NoEv
  /\ task[t].pc = "getUser"
  /\ ev' = [Call(t, "getUser", task[t].key, <<>>, FALSE) EXCEPT
              !.status = "err", !.err = e,
              !.resp = [NoResp EXCEPT !.kind = "error", !.err = e],
              !.nreq = task[t].nreq]
  /\ task' = [task EXCEPT ![t] = IdleTask]
  /\ UNCHANGED <<now, cache, lastSet>>

\* ------------------------------------------------------------ getUsers
\* The loop skipping an id it has met before.
RECURSIVE WalkDedup(_, _, _, _, _, _)
WalkDedup(ids, i, st, force, p, base) ==
  IF i > Len(ids) THEN st
  ELSE IF \E j \in 1..(i - 1) : ids[j] = ids[i]
       THEN WalkDedup(ids, i + 1, st, force, p, base)
       ELSE LET k == ids[i]
                h == CacheHas(st.cache, k, ClockAt(2 * i - 1, p, base))
            IN  IF UseCache(h.found, force)
                THEN LET g == CacheGet(h.cache, k, ClockAt(2 * i, p, base))
                     IN  WalkDedup(ids, i + 1,
                                   [cache |-> g.cache,
                                    users |-> Append(st.users, g.value),
                                    notInCache |-> st.notInCache,
                                    clk |-> ClockAt(2 * i, p, base)],
                                   force, p, base)
                ELSE WalkDedup(ids, i + 1,
                               [cache |-> h.cache, users |-> st.users,
                                notInCache |-> Append(st.notInCache, k),
                                clk |-> ClockAt(2 * i - 1, p, base)],
                               force, p, base)

\* utils.ts:137-143, the loop from id number i on.  Readings: for the i-th
\* id, has is reading 2i-1 and get is reading 2i.  st.clk is the last reading.
RECURSIVE Walk(_, _, _, _, _, _)
Walk(ids, i, st, force, p, base) ==
  IF i > Len(ids) THEN st
  ELSE LET k == ids[i]
           h == CacheHas(st.cache, k, ClockAt(2 * i - 1, p, base))
       IN  IF UseCache(h.found, force)
           THEN LET g == CacheGet(h.cache, k, ClockAt(2 * i, p, base))
                IN  Walk(ids, i + 1,
                         [cache |-> g.cache, users |-> Append(st.users, g.value),
                          notInCache |-> st.notInCache,
                          clk |-> ClockAt(2 * i, p, base)],
                         force, p, base)
           ELSE Walk(ids, i + 1,
                     [cache |-> h.cache, users |-> st.users,
                      notInCache |-> Append(st.notInCache, k),
                      clk |-> ClockAt(2 * i - 1, p, base)],
                     force, p, base)

\* utils.ts:150-153, the loop from user number i on: set is reading i.
RECURSIVE StoreAll(_, _, _, _, _)
StoreAll(us, i, c, p, base) ==
  IF i > Len(us) THEN c
  ELSE StoreAll(us, i + 1,
                CacheSet(c, us[i].id, us[i], Timeout, ClockAt(i, p, base)),
                p, base)

\* The limit off by one: 101 ids pass.
OverLimitOffByOne(ids) == Len(ids) > MaxBatch + 1

\* utils.ts:132: the limit on one call.
OverLimit(ids) == Len(ids) > MaxBatch

\* utils.ts:150-153: the users answered are pushed after the hits, as answered.
Merge(users, us) == users \o us

\* The clock readings getUsers(ids) makes at most before it returns or awaits.
Readings(ids) == IF Len(ids) > MaxBatch THEN 0 ELSE 2 * Len(ids)

\* utils.ts:131-149, up to the throw, the return or the await.
GetUsers(t, ids, force, p) ==
  /\ ev = NoEv
  /\ task[t].pc = "idle"
  /\ IF OverLimit(ids)
     THEN /\ ev' = [Call(t, "getUsers", "none", ids, force) EXCEPT
                      !.status = "err", !.err = TooMany]
          /\ UNCHANGED <<now, cache, task>>
     ELSE LET w == Walk(ids, 1,
                        [cache |-> cache, users |-> <<>>, notInCache |-> <<>>,
                         clk |-> now],
                        force, p, now)
          IN  /\ cache' = w.cache
              /\ now' = w.clk
              /\ IF Len(w.notInCache) > 0
                 THEN /\ task' = [task EXCEPT ![t] =
                                    [IdleTask EXCEPT !.pc = "getUsers",
                                                     !.users = w.users,
                                                     !.req = w.notInCache,
                                                     !.nreq = 1]]
                      /\ ev' = [Call(t, "getUsers", "none", ids, force) EXCEPT
                                  !.status = "await", !.hits = w.users,
                                  !.nreq = 1]
                 ELSE /\ ev' = [Call(t, "getUsers", "none", ids, force) EXCEPT
                                  !.status = "ok", !.users = w.users,
                                  !.hits = w.users]
                      /\ UNCHANGED task
  /\ UNCHANGED lastSet

\* The loop storing the i-th user answered under the i-th id asked for.
RECURSIVE StoreUnder(_, _, _, _, _, _)
StoreUnder(req, us, i, c, p, base) ==
  IF i > Len(us) THEN c
  ELSE StoreUnder(req, us, i + 1,
                  CacheSet(c, IF i <= Len(req) THEN req[i] ELSE us[i].id, us[i],
                           Timeout, ClockAt(i, p, base)),
                  p, base)

\* getUsers that stores the answer under the ids it asked for.
RespondManyByRequest(t, us, p) ==
  /\ ev = NoEv
  /\ task[t].pc = "getUsers"
  /\ cache' = StoreUnder(task[t].req, us, 1, cache, p, now)
  /\ now' = IF Len(us) > 0 THEN ClockAt(Len(us), p, now) ELSE now
  /\ ev' = [Call(t, "getUsers", "none", task[t].req, FALSE) EXCEPT
              !.status = "ok", !.users = Merge(task[t].users, us),
              !.hits = task[t].users,
              !.resp = [NoResp EXCEPT !.kind = "many", !.users = us],
              !.nreq = task[t].nreq]
  /\ task' = [task EXCEPT ![t] = IdleTask]
  /\ UNCHANGED lastSet

\* utils.ts:150-155: GET /users/multiple answers the list us.
RespondMany(t, us, p) ==
  /\ ev = NoEv
  /\ task[t].pc = "getUsers"
  /\ cache' = StoreAll(us, 1, cache, p, now)
  /\ now' = IF Len(us) > 0 THEN ClockAt(Len(us), p, now) ELSE now
  /\ ev' = [Call(t, "getUsers", "none", task[t].req, FALSE) EXCEPT
              !.status = "ok", !.users = Merge(task[t].users, us),
              !.hits = task[t].users,
              !.resp = [NoResp EXCEPT !.kind = "many", !.users = us],
              !.nreq = task[t].nreq]
  /\ task' = [task EXCEPT ![t] = IdleTask]
  /\ UNCHANGED lastSet

\* The failure masked: the hits collected are returned as the result.
FailManyPartial(t, e) ==
  /\ ev = NoEv
  /\ task[t].pc = "getUsers"
  /\ ev' = [Call(t, "getUsers", "none", <<>>, FALSE) EXCEPT
              !.status = "ok", !.users = task[t].users, !.hits = task[t].users,
              !.resp = [NoResp EXCEPT !.kind = "error", !.err = e],
              !.nreq = task[t].nreq]
  /\ task' = [task EXCEPT ![t] = IdleTask]
  /\ UNCHANGED <<now, cache, lastSet>>

\* utils.ts:145: the request rejects with e and the await throws.
FailMany(t, e) ==
  /\ ev = NoEv
  /\ task[t].pc = "getUsers"
  /\ ev' = [Call(t, "getUsers", "none", <<>>, FALSE) EXCEPT
              !.status = "err", !.err = e, !.hits = task[t].users,
              !.resp = [NoResp EXCEPT !.kind = "error", !.err = e],
              !.nreq = task[t].nreq]
  /\ task' = [task EXCEPT ![t] = IdleTask]
  /\ UNCHANGED <<now, cache, lastSet>>

\* ---------------------------------------------------------- verifyUser
\* utils.ts:166-169, up to the await.
VerifyUser(t) ==
  /\ ev = NoEv
  /\ task[t].pc = "idle"
  /\ task' = [task EXCEPT ![t] = [IdleTask EXCEPT !.pc = "verifyUser", !.nreq = 1]]
  /\ ev' = [Call(t, "verifyUser", "none", <<>>, FALSE) EXCEPT
              !.status = "await", !.nreq = 1]
  /\ UNCHANGED <<now, cache, lastSet>>

\* verifyUser that returns the answer without storing its user.
VerifyOkNoStore(t, u) ==
  /\ ev = NoEv
  /\ task[t].pc = "verifyUser"
  /\ ev' = [Call(t, "verifyUser", "none", <<>>, FALSE) EXCEPT
              !.status = "ok", !.value = u,
              !.resp = [NoResp EXCEPT !.kind = "one", !.value = u],
              !.nreq = task[t].nreq]
  /\ task' = [task EXCEPT ![t] = IdleTask]
  /\ UNCHANGED <<now, cache, lastSet>>

\* utils.ts:170-171: POST /users/verify answers with the user u.
VerifyOk(t, u) ==
  /\ ev = NoEv
  /\ task[t].pc = "verifyUser"
  /\ cache' = CacheSet(cache, u.id, u, Timeout, now)
  /\ ev' = [Call(t, "verifyUser", "none", <<>>, FALSE) EXCEPT
              !.status = "ok", !.value = u,
              !.resp = [NoResp EXCEPT !.kind = "one", !.value = u],
              !.nreq = task[t].nreq]
  /\ task' = [task EXCEPT ![t] = IdleTask]
  /\ UNCHANGED <<now, lastSet>>

\* utils.ts:167: the request rejects with e and the await throws.
VerifyFail(t, e) ==
  /\ ev = NoEv
  /\ task[t].pc = "verifyUser"
  /\ ev' = [Call(t, "verifyUser", "none", <<>>, FALSE) EXCEPT
              !.status = "err", !.err = e,
              !.resp = [NoResp EXCEPT !.kind = "error", !.err = e],
              !.nreq = task[t].nreq]
  /\ task' = [task EXCEPT ![t] = IdleTask]
  /\ UNCHANGED <<now, cache, lastSet>>

Next ==
  \/ Tick
  \/ Deliver
  \/ \E t \in Tasks, k \in Keys, force \in BOOLEAN :
       \E p \in TickPos(2) : GetUser(t, k, force, p)
  \/ \E t \in Tasks, v \in Values : RespondOne(t, v)
  \/ \E t \in Tasks, e \in Errors : FailOne(t, e)
  \/ \E t \in Tasks, ids \in IdLists, force \in BOOLEAN :
       \E p \in TickPos(Readings(ids)) : GetUsers(t, ids, force, p)
  \/ \E t \in Tasks, us \in RespLists :
       \E p \in TickPos(Len(us)) : RespondMany(t, us, p)
  \/ \E t \in Tasks, e \in Errors : FailMany(t, e)
  \/ \E t \in Tasks : VerifyUser(t)
  \/ \E t \in Tasks, u \in Values : VerifyOk(t, u)
  \/ \E t \in Tasks, e \in Errors : VerifyFail(t, e)

Spec == Init /\ [][Next]_vars

\* ------------------------------------------------- a request that hangs
\* The requests of task Hung are never answered: its promise stays pending
\* (utils.ts:120, :145).  The requests of task Other are answered, with
\* success or with an error.
Hung == "t1"
Other == "t2"

\* The handler of an answer to task t's request.
Answer(t) ==
  \/ \E v \in Values : RespondOne(t, v)
  \/ \E e \in Errors : FailOne(t, e)
  \/ \E us \in RespLists : \E p \in TickPos(Len(us)) : RespondMany(t, us, p)
  \/ \E e \in Errors : FailMany(t, e)

NextHung ==
  \/ Tick
  \/ Deliver
  \/ \E t \in Tasks, k \in Keys, force \in BOOLEAN :
       \E p \in TickPos(2) : GetUser(t, k, force, p)
  \/ \E t \in Tasks, ids \in SeqsUpTo(Keys, HungLen), force \in BOOLEAN :
       \E p \in TickPos(Readings(ids)) : GetUsers(t, ids, force, p)
  \/ Answer(Other)

\* The event loop returns from every handler (Deliver) and runs the handler
\* of an answer that has arrived, however often other handlers come first.
SpecHung ==
  Init /\ [][NextHung]_vars /\ WF_vars(Deliver) /\ SF_vars(Answer(Other))


\* ================================================================ claims
\* An entry is live at clock reading clk (spec section 3).
Live(c, k, clk) == k \in DOMAIN c /\ c[k].expires > clk

\* The step is the first handler of a call of op (not the handler of its answer).
CallStep(op) == ev = NoEv /\ ev'.op = op /\ ev'.resp.kind = "none"

\* The step is the handler of the answer to a call of op.
AnswerStep(op) == ev = NoEv /\ ev'.op = op /\ ev'.resp.kind # "none"

\* The ids, in order and one per occurrence, that are not live when their
\* occurrence is walked (the occurrence's has is reading 2i-1).
RECURSIVE MissesFrom(_, _, _, _, _)
MissesFrom(ids, i, c, p, base) ==
  IF i > Len(ids) THEN <<>>
  ELSE (IF Live(c, ids[i], ClockAt(2 * i - 1, p, base)) THEN <<>> ELSE <<ids[i]>>)
       \o MissesFrom(ids, i + 1, c, p, base)

\* ---- C1 (SpecCache)
\* C1: after set(k, v, ttl) at time t0 with no set, delete or clear of k since,
\* get(k) at time t0 + d returns v when d < ttl and null when d >= ttl, and in
\* the second case k is absent from the store after the call.
C1_Expiry ==
  (ev.op = "get" /\ lastSet[ev.key] # NoSet) =>
    LET s == lastSet[ev.key]
        d == now - s.at
    IN  /\ (d < s.ttl) => ev.value = s.value
        /\ (d >= s.ttl) => (ev.value = Null /\ ev.key \notin DOMAIN cache)

\* A get that found the key set with a positive ttl, at or after its expiry.
C1_Witness ==
  /\ ev.op = "get"
  /\ lastSet[ev.key] # NoSet
  /\ lastSet[ev.key].ttl > 0
  /\ now - lastSet[ev.key].at >= lastSet[ev.key].ttl
  /\ ev.value = Null

\* ---- C2
\* C2: getUsers with more than 100 ids fails before any store access or
\* request: no request is sent and the store, expired entries included, the
\* clock and the tasks are as before, whatever force is.
C2_BatchLimit ==
  [][(CallStep("getUsers") /\ Len(ev'.ids) > MaxBatch) =>
       /\ ev'.status = "err"
       /\ ev'.err = TooMany
       /\ ev'.nreq = 0
       /\ cache' = cache
       /\ task' = task
       /\ now' = now]_vars

\* An over-long call with force has failed while the store holds an expired
\* entry for a key of the call, which a has() would have removed.
C2_Witness ==
  /\ ev.op = "getUsers"
  /\ Len(ev.ids) > MaxBatch
  /\ ev.force
  /\ ev.status = "err"
  /\ \E i \in 1..Len(ev.ids) :
       ev.ids[i] \in DOMAIN cache /\ cache[ev.ids[i]].expires <= now

\* ---- C3
\* C3: for getUsers(ids, force = false) with at most 100 ids, the list to
\* fetch is exactly the ids, in walk order and one per occurrence, that are
\* not live in the store when walked; if it is not empty exactly one request
\* is sent, with exactly that list, and if it is empty none is sent.
C3_PartialHit ==
  [][(CallStep("getUsers") /\ ~ev'.force /\ Len(ev'.ids) <= MaxBatch) =>
       LET t == ev'.t
           ids == ev'.ids
           toFetch == task'[t].req
       IN  /\ (now' = now) => toFetch = MissesFrom(ids, 1, cache, 0, now)
           /\ (now' # now) =>
                /\ now' = now + 1
                /\ \E p \in 2..(2 * Len(ids)) :
                     toFetch = MissesFrom(ids, 1, cache, p, now)
           /\ IF toFetch # <<>>
              THEN /\ ev'.status = "await"
                   /\ task'[t].pc = "getUsers"
                   /\ task'[t].nreq = 1
                   /\ ev'.nreq = 1
              ELSE /\ ev'.status = "ok"
                   /\ task'[t] = IdleTask
                   /\ ev'.nreq = 0]_vars

\* A call that found some ids live and sent the others.
C3_Witness ==
  /\ ev.op = "getUsers"
  /\ ~ev.force
  /\ ev.status = "await"
  /\ ev.hits # <<>>
  /\ task[ev.t].req # <<>>
  /\ Len(task[ev.t].req) < Len(ev.ids)

\* The cached values, in order and one per occurrence, of the ids that are
\* live when their occurrence is walked.
RECURSIVE HitsFrom(_, _, _, _, _)
HitsFrom(ids, i, c, p, base) ==
  IF i > Len(ids) THEN <<>>
  ELSE (IF Live(c, ids[i], ClockAt(2 * i - 1, p, base))
        THEN <<c[ids[i]].value>> ELSE <<>>)
       \o HitsFrom(ids, i + 1, c, p, base)

\* How often x occurs in the sequence s.
Count(s, x) == Cardinality({i \in 1..Len(s) : s[i] = x})

\* ---- C4
\* C4: the sequence a successful getUsers returns is the cached values of the
\* cache-hit ids in input order, followed by the users the remote answered in
\* the order it answered them.
C4_Ordering ==
  [][/\ (CallStep("getUsers") /\ ~ev'.force /\ Len(ev'.ids) <= MaxBatch) =>
          /\ (now' = now) => ev'.hits = HitsFrom(ev'.ids, 1, cache, 0, now)
          /\ (now' # now) =>
               \E p \in 2..(2 * Len(ev'.ids)) :
                 ev'.hits = HitsFrom(ev'.ids, 1, cache, p, now)
          /\ (ev'.status = "ok") => ev'.users = ev'.hits
     /\ (AnswerStep("getUsers") /\ ev'.status = "ok") =>
          /\ ev'.hits = task[ev'.t].users
          /\ ev'.users = ev'.hits \o ev'.resp.users]_vars

\* ---- C5
\* C5: getUser(k, force = true) always sends exactly one request for k, also
\* when k is live in the store, and its answer overwrites the entry of k;
\* getUsers(ids, force = true), within the limit, takes no id as a hit and
\* sends every occurrence of every id.
C5_ForceBypass ==
  [][/\ (CallStep("getUser") /\ ev'.force) =>
          /\ ev'.status = "await"
          /\ ev'.nreq = 1
          /\ task'[ev'.t].pc = "getUser"
          /\ task'[ev'.t].req = <<ev'.key>>
          /\ task'[ev'.t].nreq = 1
     /\ (AnswerStep("getUser") /\ ev'.status = "ok") =>
          /\ ev'.key \in DOMAIN cache'
          /\ cache'[ev'.key].value = ev'.resp.value
     /\ (CallStep("getUsers") /\ ev'.force /\ Len(ev'.ids) <= MaxBatch) =>
          /\ ev'.hits = <<>>
          /\ task'[ev'.t].req = ev'.ids
          /\ (ev'.ids # <<>>) =>
               /\ ev'.status = "await"
               /\ task'[ev'.t].pc = "getUsers"
               /\ task'[ev'.t].nreq = 1]_vars

\* A forced getUser awaits its request while its key is live in the store.
C5_Witness ==
  /\ ev.op = "getUser"
  /\ ev.force
  /\ ev.status = "await"
  /\ task[ev.t].req = <<ev.key>>
  /\ Live(cache, ev.key, now)

\* ---- C6
\* C6: getUser(k, force = false) when has(k) reports true returns the store's
\* value for k, sends no request and leaves the entry of k (value and expiry)
\* as it was.
C6_CacheHit ==
  [][(CallStep("getUser") /\ ~ev'.force /\ Live(cache, ev'.key, now)) =>
       /\ ev'.status = "ok"
       /\ ev'.value = cache[ev'.key].value
       /\ ev'.nreq = 0
       /\ task' = task
       /\ ev'.key \in DOMAIN cache'
       /\ cache'[ev'.key] = cache[ev'.key]]_vars

\* ---- C7
\* C7: getUser(k, force = false) when k is absent or expired sends exactly
\* one request for k; on success the store maps the requested key k to the
\* answer with expiry the clock at that moment plus the default timeout, the
\* other entries stay, and the answer is returned.
C7_Miss ==
  [][/\ (CallStep("getUser") /\ ~ev'.force /\ ~Live(cache, ev'.key, now)) =>
          /\ ev'.status = "await"
          /\ ev'.nreq = 1
          /\ task'[ev'.t] = [IdleTask EXCEPT !.pc = "getUser", !.key = ev'.key,
                                             !.req = <<ev'.key>>, !.nreq = 1]
     /\ (AnswerStep("getUser") /\ ev'.status = "ok") =>
          /\ ev'.key = task[ev'.t].key
          /\ ev'.nreq = 1
          /\ task'[ev'.t] = IdleTask
          /\ ev'.value = ev'.resp.value
          /\ DOMAIN cache' = DOMAIN cache \cup {ev'.key}
          /\ cache'[ev'.key] = [value |-> ev'.resp.value, expires |-> now' + Timeout]
          /\ \A x \in DOMAIN cache \ {ev'.key} : cache'[x] = cache[x]]_vars

\* A getUser has stored and returned an answer whose own id is another key.
C7_Witness ==
  /\ ev.op = "getUser"
  /\ ev.status = "ok"
  /\ ev.resp.kind = "one"
  /\ ev.value.id # ev.key
  /\ ev.key \in DOMAIN cache
  /\ cache[ev.key] = [value |-> ev.value, expires |-> now + Timeout]

\* ---- C8
\* C8: getUsers does not deduplicate.  A key live in the store throughout the
\* walk that occurs n times gives n copies of its value and is not fetched; a
\* key that is a miss and occurs n times is n times in the list sent.  (A key
\* that expires during the walk lies between the two.)
C8_Duplicates ==
  [][(CallStep("getUsers") /\ ~ev'.force /\ Len(ev'.ids) <= MaxBatch) =>
       LET ids == ev'.ids
           toFetch == task'[ev'.t].req
           LiveAll(k) == Live(cache, k, now')
           Copies(v, clk) ==
             Cardinality({i \in 1..Len(ids) :
                            Live(cache, ids[i], clk) /\ cache[ids[i]].value = v})
       IN  /\ Len(ev'.hits) + Len(toFetch) = Len(ids)
           /\ \A k \in Keys :
                /\ LiveAll(k) =>
                     /\ Count(toFetch, k) = 0
                     /\ Count(ev'.hits, cache[k].value) >= Copies(cache[k].value, now')
                     /\ Count(ev'.hits, cache[k].value) <= Copies(cache[k].value, now)
                /\ ~Live(cache, k, now) => Count(toFetch, k) = Count(ids, k)]_vars

\* getUsers of the same live key twice has returned its value twice, without
\* a request.
C8_Witness ==
  /\ ev.op = "getUsers"
  /\ ~ev.force
  /\ ev.status = "ok"
  /\ ev.nreq = 0
  /\ Len(ev.ids) = 2
  /\ ev.ids[1] = ev.ids[2]
  /\ Len(ev.users) = 2
  /\ ev.users[1] = ev.users[2]
  /\ ev.users[1] # Null
  /\ ev.users[1] = cache[ev.ids[1]].value

\* ---- C9
\* C9: when the request of getUser or getUsers fails, the call fails with that
\* same error, sends no further request, returns nothing (the hits getUsers
\* had collected included), and no step of the call creates or overwrites a
\* store entry.
C9_FetchFailure ==
  [][/\ ((AnswerStep("getUser") \/ AnswerStep("getUsers")) /\ ev'.resp.kind = "error") =>
          /\ ev'.status = "err"
          /\ ev'.err = ev'.resp.err
          /\ ev'.value = Null
          /\ ev'.users = <<>>
          /\ ev'.nreq = 1
          /\ task'[ev'.t] = IdleTask
          /\ cache' = cache
     /\ (CallStep("getUser") \/ CallStep("getUsers")) =>
          \A k \in DOMAIN cache' : k \in DOMAIN cache /\ cache'[k] = cache[k]]_vars

\* A getUsers that had collected a hit has failed with the transport's error.
C9_Witness ==
  /\ ev.op = "getUsers"
  /\ ev.status = "err"
  /\ ev.resp.kind = "error"
  /\ ev.err = "NetworkError"
  /\ ev.hits # <<>>
  /\ ev.users = <<>>
  /\ task[ev.t] = IdleTask

\* ---- C10
\* C10: a getUser(k) that starts while another task's request for k is in
\* flight and k is absent or expired sees a miss and sends its own request,
\* so that two requests for k are in flight.
C10_NoCoalescing ==
  [][(/\ CallStep("getUser")
      /\ ~ev'.force
      /\ ~Live(cache, ev'.key, now)
      /\ \E u \in Tasks \ {ev'.t} : task[u].pc = "getUser" /\ task[u].req = <<ev'.key>>) =>
       /\ ev'.status = "await"
       /\ ev'.nreq = 1
       /\ \A u \in Tasks \ {ev'.t} : task'[u] = task[u]
       /\ Cardinality({u \in Tasks : task'[u].pc = "getUser"
                                      /\ task'[u].req = <<ev'.key>>}) >= 2]_vars

\* Two unforced getUser calls of the same key each await their own request.
C10_Witness ==
  /\ ev.op = "getUser"
  /\ ~ev.force
  /\ ev.status = "await"
  /\ \A u \in Tasks : /\ task[u].pc = "getUser"
                      /\ task[u].req = <<ev.key>>
                      /\ task[u].nreq = 1

\* ---- C11 (SpecCache)
\* C11: set(k, v2, ttl2) on a key that already has an entry leaves one entry
\* for k, with value v2 and expiry the time of this set plus ttl2, whatever
\* the value and the expiry of the entry it replaces; the other entries stay.
C11_Overwrite ==
  [][(ev = NoEv /\ ev'.op = "set" /\ ev'.key \in DOMAIN cache) =>
       LET k == ev'.key
       IN  /\ DOMAIN cache' = DOMAIN cache
           /\ cache'[k] = [value |-> lastSet'[k].value,
                           expires |-> lastSet'[k].at + lastSet'[k].ttl]
           /\ lastSet'[k].at = now
           /\ \A x \in DOMAIN cache \ {k} : cache'[x] = cache[x]]_vars

\* A set has replaced an entry of another value and a later expiry.
C11_Witness ==
  /\ ev.op = "set"
  /\ Len(ev.old) = 1
  /\ ev.old[1].value # cache[ev.key].value
  /\ ev.old[1].expires > cache[ev.key].expires
  /\ cache[ev.key] = [value |-> lastSet[ev.key].value, expires |-> now + lastSet[ev.key].ttl]

\* ---- C12 (SpecCache)
\* C12: in every store state and at every clock time has(k) answers true
\* exactly when get(k) at that instant returns the stored value of k, and
\* has(k) leaves the store as get(k) would: an expired entry of k removed,
\* everything else as it was.
C12_HasAgreesGet ==
  [][(ev = NoEv /\ ev'.op = "has") =>
       LET k == ev'.key
           g == CacheGet(cache, k, now)
       IN  /\ (ev'.status = "true") <=> (k \in DOMAIN cache /\ g.value = cache[k].value)
           /\ ev'.status \in {"true", "false"}
           /\ cache' = g.cache
           /\ (k \in DOMAIN cache /\ cache[k].expires <= now) => k \notin DOMAIN cache'
           /\ Live(cache, k, now) => cache' = cache
           /\ DOMAIN cache' \subseteq DOMAIN cache
           /\ \A x \in DOMAIN cache \ {k} : x \in DOMAIN cache' /\ cache'[x] = cache[x]]_vars

\* has(k) has found the entry of k expired, answered false and removed it,
\* the entry of the other key staying.
C12_Witness ==
  /\ ev.op = "has"
  /\ ev.status = "false"
  /\ Len(ev.old) = 1
  /\ ev.old[1].expires <= now
  /\ ev.key \notin DOMAIN cache
  /\ cache # EmptyMap

\* ---- C13
\* C13: when its request succeeds verifyUser stores the user of the answer
\* under the user's own id with the default timeout, the other entries
\* staying, so that has and get of that id at that instant find the user; a
\* getUser(id, force = false) that runs while the clock is where the entry
\* was written returns the user without a request.  When the request fails
\* the store is unchanged.
C13_VerifyPrimes ==
  [][/\ (AnswerStep("verifyUser") /\ ev'.resp.kind = "one") =>
          LET u == ev'.resp.value
          IN  /\ ev'.status = "ok"
              /\ ev'.value = u
              /\ DOMAIN cache' = DOMAIN cache \cup {u.id}
              /\ cache'[u.id] = [value |-> u, expires |-> now' + Timeout]
              /\ \A x \in DOMAIN cache \ {u.id} : cache'[x] = cache[x]
              /\ UseCache(CacheHas(cache', u.id, now').found, FALSE)
              /\ CacheGet(cache', u.id, now') = [value |-> u, cache |-> cache']
     /\ (AnswerStep("verifyUser") /\ ev'.resp.kind = "error") =>
          /\ ev'.status = "err"
          /\ ev'.err = ev'.resp.err
          /\ cache' = cache
     /\ (/\ CallStep("getUser")
         /\ ~ev'.force
         /\ ev'.key \in DOMAIN cache
         /\ cache[ev'.key].expires = now + Timeout
         /\ now' = now) =>
          /\ ev'.status = "ok"
          /\ ev'.value = cache[ev'.key].value
          /\ ev'.nreq = 0
          /\ task' = task
          /\ cache' = cache]_vars

\* verifyUser has succeeded and its user is in the store under the user's
\* id, beside an entry of the other key.
C13_Witness ==
  /\ ev.op = "verifyUser"
  /\ ev.status = "ok"
  /\ ev.value.id \in DOMAIN cache
  /\ cache[ev.value.id] = [value |-> ev.value, expires |-> now + Timeout]
  /\ DOMAIN cache = Keys

\* ---- C14 (SpecCache)
\* C14: an entry of k leaves the store only by delete(k), by clear() or by a
\* get(k) or has(k) that finds it expired, and changes only by set(k).  The
\* passage of time, a call on another key and get or has of k while it is
\* live leave the entry of k as it is; delete of an absent key changes
\* nothing; after clear() the store is empty.
C14_Lifecycle ==
  [][/\ \A k \in DOMAIN cache :
          /\ k \notin DOMAIN cache' =>
                \/ ev'.op = "delete" /\ ev'.key = k
                \/ ev'.op = "clear"
                \/ ev'.op \in {"get", "has"} /\ ev'.key = k /\ cache[k].expires <= now
          /\ (k \in DOMAIN cache' /\ cache'[k] # cache[k]) =>
                ev'.op = "set" /\ ev'.key = k
     /\ now' # now => cache' = cache
     /\ (ev = NoEv /\ ev'.op \in {"get", "has"} /\ Live(cache, ev'.key, now)) =>
          cache' = cache
     /\ (ev = NoEv /\ ev'.op = "delete" /\ ev'.key \notin DOMAIN cache) => cache' = cache
     /\ (ev = NoEv /\ ev'.op = "delete") => ev'.key \notin DOMAIN cache'
     /\ (ev = NoEv /\ ev'.op = "clear") => cache' = EmptyMap]_vars

\* delete of an absent key has left in place the entry of the other key,
\* which time has carried past its expiry.
C14_Witness ==
  /\ ev.op = "delete"
  /\ ev.old = <<>>
  /\ \E x \in DOMAIN cache : x # ev.key /\ cache[x].expires < now

\* ---- C15
\* What the walk of getUsers reads from the store: for every occurrence found
\* by has (reading 2i-1), the value of its entry if the entry's expiry is
\* later than the clock at its get (reading 2i), and null otherwise.
RECURSIVE ReadsFrom(_, _, _, _, _)
ReadsFrom(ids, i, c, p, base) ==
  IF i > Len(ids) THEN <<>>
  ELSE (IF Live(c, ids[i], ClockAt(2 * i - 1, p, base))
        THEN IF c[ids[i]].expires > ClockAt(2 * i, p, base)
             THEN <<c[ids[i]].value>> ELSE <<Null>>
        ELSE <<>>)
       \o ReadsFrom(ids, i + 1, c, p, base)

\* C15: a value that getUser(force = false) or getUsers(force = false) returns
\* from the store, not from a request, is the value of an entry whose expiry
\* is strictly later than the clock at the moment its get read it; an expired
\* entry that is still in the map is never returned.
C15_NoStaleRead ==
  [][/\ (CallStep("getUser") /\ ~ev'.force /\ ev'.status = "ok" /\ ev'.value # Null) =>
          /\ ev'.key \in DOMAIN cache
          /\ ev'.value = cache[ev'.key].value
          /\ cache[ev'.key].expires > now'
     /\ (CallStep("getUser") /\ ~ev'.force /\ ev'.key \in DOMAIN cache
           /\ cache[ev'.key].expires <= now) =>
          ev'.status = "await"
     /\ (CallStep("getUsers") /\ ~ev'.force /\ Len(ev'.ids) <= MaxBatch) =>
          /\ \E p \in (IF now' = now THEN {0} ELSE 2..(2 * Len(ev'.ids))) :
               ev'.hits = ReadsFrom(ev'.ids, 1, cache, p, now)
          /\ \A j \in 1..Len(ev'.hits) :
               ev'.hits[j] # Null =>
                 \E k \in Keys : /\ Live(cache, k, now)
                                 /\ Count(ev'.ids, k) > 0
                                 /\ ev'.hits[j] = cache[k].value]_vars

\* getUser has returned a live entry's value without a request while an
\* expired entry of the other key is still in the map.
C15_Witness ==
  /\ ev.op = "getUser"
  /\ ~ev.force
  /\ ev.status = "ok"
  /\ ev.nreq = 0
  /\ ev.value # Null
  /\ ev.value = cache[ev.key].value
  /\ cache[ev.key].expires > now
  /\ \E x \in DOMAIN cache : x # ev.key /\ cache[x].expires <= now

\* ---- C16 (SpecHung)
\* C16: a request that is never answered stalls only the call that awaits
\* it.  While the call of task Hung is suspended, a call of the other task
\* that awaits its own request comes to its end once that request is
\* answered; a getUser of the other task can start for any key, the key of
\* the hung call included, and is served from the store or sends its own
\* request as the store alone decides; and no step of the other task touches
\* what the hung call holds.
C16_HungFetch ==
  /\ (task[Hung].pc # "idle" /\ task[Other].pc # "idle")
       ~> (task[Hung].pc # "idle" /\ task[Other].pc = "idle")
  /\ [](ev # NoEv ~> ev = NoEv)
  /\ []((ev = NoEv /\ task[Hung].pc # "idle" /\ task[Other].pc = "idle") =>
          \A k \in Keys, force \in BOOLEAN :
            ENABLED GetUser(Other, k, force, 0))
  /\ [][(task[Hung].pc # "idle") =>
          /\ task'[Hung] = task[Hung]
          /\ (CallStep("getUser") /\ ev'.t = Other /\ ~Live(cache, ev'.key, now)) =>
               /\ ev'.status = "await"
               /\ task'[Other].req = <<ev'.key>>
          /\ (CallStep("getUser") /\ ev'.t = Other /\ ~ev'.force
                /\ Live(cache, ev'.key, now')) =>
               /\ ev'.status = "ok"
               /\ ev'.value = cache[ev'.key].value
          /\ (AnswerStep("getUser") /\ ev'.resp.kind = "one") =>
               /\ ev'.t = Other
               /\ ev'.status = "ok"
               /\ cache'[ev'.key] = [value |-> ev'.resp.value,
                                     expires |-> now' + Timeout]]_vars

\* While the call of task Hung waits for the answer for a key, a getUser of
\* the other task for the same key has sent its own request, got its answer
\* and stored it.
C16_Witness ==
  /\ task[Hung].pc = "getUser"
  /\ ev.t = Other
  /\ ev.op = "getUser"
  /\ ev.key = task[Hung].key
  /\ ev.status = "ok"
  /\ ev.resp.kind = "one"
  /\ task[Other] = IdleTask
  /\ cache[ev.key].value = ev.value

\* ---- C17
\* C17: a successful getUser(k, force = false) never returns null and a
\* successful getUsers(force = false) never has null in its result, also
\* when the clock reaches the entry's expiry between the has and the get of
\* the same call.
C17_NeverNull ==
  /\ (ev.op = "getUser" /\ ~ev.force /\ ev.status = "ok") => ev.value # Null
  /\ (ev.op = "getUsers" /\ ~ev.force /\ ev.status = "ok") =>
       \A j \in 1..Len(ev.users) : ev.users[j] # Null

\* ---- C18
\* The last place of a user with id k in the answer us.
LastOf(us, k) == CHOOSE j \in 1..Len(us) :
                   us[j].id = k /\ \A i \in (j + 1)..Len(us) : us[i].id # k

\* C18: whenever the answer to a request of getUser, getUsers or verifyUser
\* is processed, whatever entry another answer may have written under the
\* same key before and whichever request was sent first, the entry of that
\* key afterwards holds the value of this answer, with expiry the clock at
\* this processing plus the default timeout; a request still in flight for
\* the key is not disturbed, and its answer will overwrite the entry in turn.
C18_LastWriteWins ==
  [][/\ (AnswerStep("getUser") /\ ev'.status = "ok") =>
          /\ cache'[ev'.key] = [value |-> ev'.resp.value, expires |-> now' + Timeout]
          /\ now' = now
     /\ (AnswerStep("verifyUser") /\ ev'.status = "ok") =>
          /\ cache'[ev'.resp.value.id] =
               [value |-> ev'.resp.value, expires |-> now' + Timeout]
          /\ now' = now
     /\ (AnswerStep("getUsers") /\ ev'.status = "ok") =>
          LET us == ev'.resp.users
          IN  \E p \in (IF now' = now THEN {0} ELSE 2..Len(us)) :
                \A k \in Keys :
                  (\E j \in 1..Len(us) : us[j].id = k) =>
                    /\ k \in DOMAIN cache'
                    /\ cache'[k] = [value |-> us[LastOf(us, k)],
                                    expires |-> ClockAt(LastOf(us, k), p, now) + Timeout]
     /\ (ev = NoEv /\ ev'.resp.kind # "none") =>
          \A u \in Tasks \ {ev'.t} : task'[u] = task[u]]_vars

\* The answer to one of two getUser requests in flight for the same key has
\* been processed, over an entry of another value written at this very
\* clock value, and the other request is still in flight.
C18_Witness ==
  /\ ev.op = "getUser"
  /\ ev.status = "ok"
  /\ ev.resp.kind = "one"
  /\ Len(ev.old) = 1
  /\ ev.old[1].value # ev.value
  /\ ev.old[1].expires = now + Timeout
  /\ cache[ev.key] = [value |-> ev.value, expires |-> now + Timeout]
  /\ \E u \in Tasks \ {ev.t} : task[u].pc = "getUser" /\ task[u].key = ev.key

\* ---- C19
\* C19: getUsers stores each user of the answer under the user's own id, not
\* under an id it asked for.  After a successful answer the keys written are
\* exactly the ids of the users answered: an id asked for that the answer
\* omits keeps the store state it had (it is not cached), an id not asked
\* for that the answer holds is cached, and the result has as many elements
\* as the hits collected plus the users answered, however many ids were asked.
C19_OwnId ==
  [][(AnswerStep("getUsers") /\ ev'.status = "ok") =>
       LET us == ev'.resp.users
           Answered(k) == \E j \in 1..Len(us) : us[j].id = k
       IN  /\ ev'.ids = task[ev'.t].req
           /\ \A k \in Keys :
                /\ Answered(k) =>
                     /\ k \in DOMAIN cache'
                     /\ cache'[k].value.id = k
                     /\ cache'[k].value = us[LastOf(us, k)]
                     /\ cache'[k].expires >= now + Timeout
                /\ ~Answered(k) =>
                     /\ (k \in DOMAIN cache') <=> (k \in DOMAIN cache)
                     /\ k \in DOMAIN cache => cache'[k] = cache[k]
           /\ ev'.hits = task[ev'.t].users
           /\ Len(ev'.users) = Len(ev'.hits) + Len(us)]_vars

\* The answer to getUsers left out an id asked for, which is not in the
\* store, and held twice a user not asked for, which is now cached.
C19_Witness ==
  /\ ev.op = "getUsers"
  /\ ev.status = "ok"
  /\ ev.resp.kind = "many"
  /\ Len(ev.resp.users) > Len(ev.ids)
  /\ \E k \in Keys : /\ Count(ev.ids, k) > 0
                      /\ \A j \in 1..Len(ev.resp.users) : ev.resp.users[j].id # k
                      /\ k \notin DOMAIN cache
  /\ \E j \in 1..Len(ev.resp.users) :
       /\ Count(ev.ids, ev.resp.users[j].id) = 0
       /\ cache[ev.resp.users[j].id].value = ev.resp.users[j]
  /\ Len(ev.users) = Len(ev.hits) + Len(ev.resp.users)

=============================================================================
